---- MODULE Spec2Model ----
(***************************************************************************)
(* TrendyFetch: scrape one Trendyol product page, cache the record by URL, *)
(* export it as Shopify CSV rows, resolve a Shopify category config.       *)
(*                                                                         *)
(* Strings that the code searches (includes) are sequences of one-char     *)
(* strings; strings that are only compared or joined are TLA+ strings.     *)
(* A JS value the code tests for truthiness is a record [t, v]:            *)
(*   t = "undef" | "str" | "num", v its text.                              *)
(* An optional value (Product | undefined) is <<>> or <<value>>.           *)
(***************************************************************************)
EXTENDS Integers, Sequences, FiniteSets, TLC

\* ------------------------------------------------------------------ bounds
\* Total number of scrape requests the clients send in one behaviour.
MaxRequests == 3
\* Total number of export requests the clients send in one behaviour.
MaxExports == 2
\* Longest category list handed to getCategoryConfig.
MaxCats == 2
\* Largest base price, in cents, of the price pages (below 10.00; the pages
\* have 100 besides).
MaxBaseCents == 999

\* ------------------------------------------------------------ JS helpers
Undef == [t |-> "undef", v |-> ""]
Str(s) == [t |-> "str", v |-> s]
Num(s) == [t |-> "num", v |-> s]

\* JS truthiness of undefined / string / number values.
Truthy(x) ==
  /\ x.t # "undef"
  /\ ~(x.t = "str" /\ x.v = "")
  /\ ~(x.t = "num" /\ x.v \in {"0", "NaN"})

\* String.prototype.includes on character sequences.
Includes(s, sub) ==
  \E i \in 0..(Len(s) - Len(sub)) : SubSeq(s, i + 1, i + Len(sub)) = sub

\* ------------------------------------------------------- shared/schema.ts
\* A request body's url field. raw is the string itself (the cache key);
\* parses/hostname/pathname are what new URL(raw) gives for it.
UrlField(raw, isString, parses, hostname, pathname) ==
  [raw |-> raw, isString |-> isString, parses |-> parses,
   hostname |-> hostname, pathname |-> pathname]

UrlGoodA == UrlField("https://www.trendyol.com/polo/tisort-p-1", TRUE, TRUE,
                     "www.trendyol.com",
                     <<"/", "b", "/", "t", "-", "p", "-", "1">>)
UrlGoodB == UrlField("https://www.trendyol.com/p-2", TRUE, TRUE,
                     "www.trendyol.com", <<"/", "p", "-", "2">>)
UrlNoProductPath == UrlField("https://www.trendyol.com/sr?q=p", TRUE, TRUE,
                     "www.trendyol.com", <<"/", "s", "r">>)
UrlDashP == UrlField("https://www.trendyol.com/top-p", TRUE, TRUE,
                     "www.trendyol.com", <<"/", "t", "o", "p", "-", "p">>)
UrlOtherHost == UrlField("https://trendyol.com/b/t-p-1", TRUE, TRUE,
                     "trendyol.com", <<"/", "b", "/", "t", "-", "p", "-", "1">>)
UrlUnparsable == UrlField("not a url /p-1", TRUE, FALSE, "", <<>>)
UrlMissing == UrlField("", FALSE, FALSE, "", <<>>)

ScrapeBodies == {UrlGoodA, UrlGoodB, UrlNoProductPath, UrlDashP, UrlOtherHost,
                 UrlUnparsable, UrlMissing}

\* The mutant accepts any product-looking path on any host.
urlRefineAnyHost(u) ==
  /\ u.parses
  /\ (Includes(u.pathname, <<"/", "p", "-">>)
        \/ Includes(u.pathname, <<"-", "p", "-">>))

\* urlSchema's refine callback: new URL(url) must not throw, the hostname
\* must be www.trendyol.com and the path must contain "/p-" or "-p-".
urlRefine(u) ==
  /\ u.parses
  /\ LET isValidHost == u.hostname = "www.trendyol.com"
         isProductUrl == \/ Includes(u.pathname, <<"/", "p", "-">>)
                         \/ Includes(u.pathname, <<"-", "p", "-">>)
     IN isValidHost /\ isProductUrl

\* urlSchema.parse(req.body) succeeds: url is a string and passes refine.
urlSchemaOk(u) == u.isString /\ urlRefine(u)

\* ------------------------------------------------------- server/errors.ts
NoDetails == <<>>
Err(name, message, field, details) ==
  [name |-> name, message |-> message, field |-> field, details |-> details]

TrendyolScrapingError(message, details) ==
  Err("TrendyolScrapingError", message, "", details)
URLValidationError(message) == Err("URLValidationError", message, "", NoDetails)
ProductDataError(message, field) == Err("ProductDataError", message, field, NoDetails)
\* Errors of other classes: ZodError (urlSchema.parse), TypeError, Error.
OtherError(name, message) == Err(name, message, "", NoDetails)

\* handleError: the instanceof chain, in its order.
handleError(error) ==
  IF error.name = "TrendyolScrapingError"
    THEN [status |-> 500,
          message |-> "Urun verisi cekilirken hata olustu: " \o error.message,
          details |-> error.details]
  ELSE IF error.name = "URLValidationError"
    THEN [status |-> 400, message |-> error.message, details |-> NoDetails]
  ELSE IF error.name = "ProductDataError"
    THEN [status |-> 422,
          message |-> error.field \o " alaninda hata: " \o error.message,
          details |-> NoDetails]
  ELSE [status |-> 500, message |-> "Beklenmeyen bir hata olustu",
        details |-> NoDetails]

\* The catch path: console.error logs the thrown error (kept as thrown), then
\* res.status(status).json({message, details}).
ErrorResponse(error) ==
  LET h == handleError(error)
  IN [status |-> h.status, kind |-> "error", message |-> h.message,
      details |-> h.details, thrown |-> error]

\* res.json(product): status 200 with the record as body.
JsonResponse(product) == [status |-> 200, kind |-> "product", product |-> product]

\* ------------------------------------------------------ server/storage.ts
\* new Map(): no entries.
EmptyMap == [k \in {} |-> <<>>]

\* Map.prototype.get: <<>> for undefined.
getProduct(products, url) ==
  IF url \in DOMAIN products THEN <<products[url]>> ELSE <<>>

\* { ...insertProduct, id }
WithId(insertProduct, id) ==
  [f \in DOMAIN insertProduct \cup {"id"} |->
     IF f = "id" THEN id ELSE insertProduct[f]]

\* The mutant leaves an entry the url already has in the map.
saveProductKeepFirst(products, currentId, insertProduct) ==
  LET id == currentId
      product == WithId(insertProduct, id)
  IN [products |-> [k \in DOMAIN products \cup {product.url} |->
                      IF k \in DOMAIN products THEN products[k] ELSE product],
      currentId |-> currentId + 1,
      product |-> product]

\* The mutant pre-increments: the first id handed out is 2.
saveProductPreIncrement(products, currentId, insertProduct) ==
  LET id == currentId + 1
      product == WithId(insertProduct, id)
  IN [products |-> [k \in DOMAIN products \cup {product.url} |->
                      IF k = product.url THEN product ELSE products[k]],
      currentId |-> currentId + 1,
      product |-> product]

\* saveProduct: id = this.currentId++, the record with that id is set under
\* its url, and returned. The result carries the storage's new fields.
saveProduct(products, currentId, insertProduct) ==
  LET id == currentId
      product == WithId(insertProduct, id)
  IN [products |-> [k \in DOMAIN products \cup {product.url} |->
                      IF k = product.url THEN product ELSE products[k]],
      currentId |-> currentId + 1,
      product |-> product]

\* ------------------------------------------------- the fetched page (html)
\* What the handler reads of a fetched page:
\*   ok, status        response.ok, response.status
\*   script            first JSON-LD block: "none" (absent or empty),
\*                     "badjson" (JSON.parse throws), "json"
\*   type, name, description, offersPrice, brandName, manufacturer
\*                     schema["@type"] (truthy or not), schema.name, ...
\*   contentUrl        schema.image?.contentUrl: [t |-> "undef" | "str" | "arr", items]
\*   priceEl, altPriceEl   text of the first element of each price selector,
\*                     as tokens; <<>> when the selector matches nothing,
\*                     <<text>> when it matches
\*   mainImage         src of img.detail-section-img: <<>> or <<src>>
\*   gallery           srcs of div.gallery-modal-content img, in order
Page(ok, status, script, type, name, description, offersPrice, brandName, manufacturer, contentUrl, priceEl, altPriceEl, mainImage, gallery) ==
  [ok |-> ok, status |-> status, script |-> script, type |-> type, name |-> name,
   description |-> description, offersPrice |-> offersPrice,
   brandName |-> brandName, manufacturer |-> manufacturer,
   contentUrl |-> contentUrl, priceEl |-> priceEl, altPriceEl |-> altPriceEl,
   mainImage |-> mainImage, gallery |-> gallery]

NoContentUrl == [t |-> "undef", items |-> <<>>]
OneContentUrl(src) == [t |-> "str", items |-> <<src>>]
ArrContentUrl(items) == [t |-> "arr", items |-> items]

\* ------------------------------------------------------------ scrapePrice
\* String.prototype.trim on a token sequence (whitespace tokens are " ").
RECURSIVE TrimLeft(_)
TrimLeft(s) == IF s # <<>> /\ Head(s) = " " THEN TrimLeft(Tail(s)) ELSE s
RECURSIVE TrimRight(_)
TrimRight(s) ==
  IF s # <<>> /\ s[Len(s)] = " " THEN TrimRight(SubSeq(s, 1, Len(s) - 1)) ELSE s
Trim(s) == TrimRight(TrimLeft(s))

\* String.prototype.replace(tok, ''): the first occurrence only.
RECURSIVE ReplaceFirst(_, _)
ReplaceFirst(s, tok) ==
  IF s = <<>> THEN <<>>
  ELSE IF Head(s) = tok THEN Tail(s)
  ELSE <<Head(s)>> \o ReplaceFirst(Tail(s), tok)

\* The tokens back as one string.
RECURSIVE Join(_)
Join(s) == IF s = <<>> THEN "" ELSE Head(s) \o Join(Tail(s))

\* An amount of cents as a decimal string with two fraction digits.
CentsText(c) ==
  ToString(c \div 100) \o "." \o (IF c % 100 < 10 THEN "0" ELSE "") \o ToString(c % 100)

\* parseFloat of the strings the pages use, in cents: "100", or a decimal
\* string with two fraction digits up to MaxBaseCents; any other string of
\* the pages has no numeric prefix (NaN).
NaN == [nan |-> TRUE, cents |-> 0]
Cents(c) == [nan |-> FALSE, cents |-> c]
parseFloat(s) ==
  CASE s = "100" -> Cents(10000)
    [] s \in {"abc", ""} -> NaN
    [] OTHER -> IF \E c \in 0..MaxBaseCents : s = CentsText(c)
                  THEN Cents(CHOOSE c \in 0..MaxBaseCents : s = CentsText(c))
                  ELSE NaN

\* Of the base prices below 10.00 whose exact product with 1.15 ends in half
\* a cent, those whose IEEE-754 double product lies above the half.
TiesAboveHalf == {210, 250, 590, 750, 930}

\* The mutant cuts the product off after the second decimal.
markupTruncated(x) ==
  IF x.nan THEN "NaN" ELSE CentsText((x.cents * 115) \div 100)

\* (x * 1.15).toFixed(2) for x below 10.00 or x = 100: the double product
\* rounded to cents, as a decimal string with two fraction digits.
markupToFixed2(x) ==
  IF x.nan THEN "NaN"
  ELSE LET exact == x.cents * 115
       IN CentsText(IF exact % 100 = 50
                      THEN (IF x.cents \in TiesAboveHalf
                              THEN exact \div 100 + 1 ELSE exact \div 100)
                      ELSE (exact + 50) \div 100)

\* The text of a price element to a base price string:
\* .text().trim().replace('TL', '').trim()
priceText(tokens) == Join(Trim(ReplaceFirst(Trim(tokens), "TL")))

PriceResult(price, basePrice) ==
  [threw |-> FALSE, price |-> price, basePrice |-> basePrice, error |-> <<>>]
PriceThrow(error) ==
  [threw |-> TRUE, price |-> "", basePrice |-> "", error |-> <<error>>]

\* scrapePrice on a page whose first JSON-LD block parsed (the handler has
\* parsed the same block before the call): offers.price, then the primary
\* selector, then the alternative selector, else a plain Error is thrown
\* (the catch logs and rethrows it).
scrapePrice(page) ==
  IF Truthy(page.offersPrice)
    THEN LET basePrice == page.offersPrice.v
         IN PriceResult(markupToFixed2(parseFloat(basePrice)), basePrice)
  ELSE IF page.priceEl # <<>>
    THEN LET basePrice == priceText(page.priceEl[1])
         IN PriceResult(markupToFixed2(parseFloat(basePrice)), basePrice)
  ELSE IF page.altPriceEl # <<>>
    THEN LET basePrice == priceText(page.altPriceEl[1])
         IN PriceResult(markupToFixed2(parseFloat(basePrice)), basePrice)
  ELSE PriceThrow(OtherError("Error", "Fiyat bilgisi bulunamadi"))

\* ------------------------------------------------ POST /api/scrape, pure part
\* title.split(' ')[0] for the titles the pages use.
firstWord(s) ==
  CASE s = "Polo Tisort" -> "Polo"
    [] OTHER -> s

\* schema.image?.contentUrl, else the detail image and the gallery images
\* without repetition.
RECURSIVE pushNew(_, _)
pushNew(images, srcs) ==
  IF srcs = <<>> THEN images
  ELSE LET src == Head(srcs)
       IN IF src # "" /\ \A i \in 1..Len(images) : images[i] # src
            THEN pushNew(Append(images, src), Tail(srcs))
            ELSE pushNew(images, Tail(srcs))

scrapeImages(page) ==
  LET c == page.contentUrl
      fromSchema == IF c.t = "arr" THEN c.items
                    ELSE IF c.t = "str" /\ c.items[1] # "" THEN c.items
                    ELSE <<>>
      main == IF page.mainImage # <<>> /\ page.mainImage[1] # ""
                THEN page.mainImage ELSE <<>>
  IN IF fromSchema # <<>> THEN fromSchema ELSE pushNew(main, page.gallery)

Thrown(error) == [threw |-> TRUE, error |-> <<error>>, product |-> <<>>]
Assembled(product) == [threw |-> FALSE, error |-> <<>>, product |-> <<product>>]

\* The record the handler builds. Its categories, tags, attributes and
\* variants come from extractors that catch their own errors and read
\* nothing but the page; they are not part of this record.
InsertProduct(url, title, description, price, basePrice, images, brand) ==
  [url |-> url, title |-> title, description |-> description, price |-> price,
   basePrice |-> basePrice, images |-> images, brand |-> brand]

\* The mutant throws a plain Error where no JSON-LD block is found.
schemaErrorUnclassified(page) ==
  IF page.script = "none"
    THEN <<OtherError("Error", "Urun semasi bulunamadi")>>
  ELSE IF page.script = "badjson" \/ ~page.type \/ ~Truthy(page.name)
    THEN <<ProductDataError("Urun semasi gecersiz", "schema")>>
  ELSE <<>>

\* The schema block: no first JSON-LD block (or an empty one) throws;
\* JSON.parse throwing, or the inner throw for a missing @type or name
\* being caught, are both rethrown by the catch as one ProductDataError.
\* <<>> when nothing is thrown.
schemaError(page) ==
  IF page.script = "none"
    THEN <<ProductDataError("Urun semasi bulunamadi", "schema")>>
  ELSE IF page.script = "badjson" \/ ~page.type \/ ~Truthy(page.name)
    THEN <<ProductDataError("Urun semasi gecersiz", "schema")>>
  ELSE <<>>

\* The mutant checks the title alone.
basicInfoMissingTitleOnly(title, description, price) == ~Truthy(title)

\* !title || !description || !price
basicInfoMissing(title, description, price) ==
  ~Truthy(title) \/ ~Truthy(description) \/ price = ""

\* From the fetch response to the record handed to saveProduct, or the
\* first error thrown on the way, in the handler's order.
assemble(url, page) ==
  IF ~page.ok
    THEN Thrown(TrendyolScrapingError("Urun sayfasi yuklenemedi",
                                      <<[status |-> page.status]>>))
  ELSE IF schemaError(page) # <<>> THEN Thrown(schemaError(page)[1])
  ELSE
    LET title == page.name
        description == page.description
        priced == scrapePrice(page)
        brandFound == Truthy(page.brandName) \/ Truthy(page.manufacturer)
        brand == IF Truthy(page.brandName) THEN page.brandName
                 ELSE IF Truthy(page.manufacturer) THEN page.manufacturer
                 ELSE Str(firstWord(title.v))
        images == scrapeImages(page)
    IN IF priced.threw THEN Thrown(priced.error[1])
       ELSE IF ~brandFound /\ title.t # "str"
         THEN Thrown(OtherError("TypeError", "title.split is not a function"))
       ELSE IF basicInfoMissing(title, description, priced.price)
         THEN Thrown(ProductDataError("Temel urun bilgileri eksik", "basicInfo"))
       ELSE IF images = <<>>
         THEN Thrown(ProductDataError("Gorseller islenirken hata olustu", "images"))
       ELSE Assembled(InsertProduct(url, title, description, priced.price,
                                    priced.basePrice, images, brand))

\* ------------------------------------------------------------ page pools
PriceTextA == <<"2.10", " ", "TL">>
PriceTextB == <<"100", "TL">>
EmptyText == <<>>

\* Pages of the concurrent specification: one per outcome of the handler.
GoodPageA == Page(TRUE, 200, "json", TRUE, Str("Polo Tisort"), Str("Pamuklu"),
                  Num("100"), Str("Polo"), Undef, OneContentUrl("a.jpg"),
                  <<>>, <<>>, <<>>, <<>>)
GoodPageB == Page(TRUE, 200, "json", TRUE, Str("Polo Tisort"), Str("Pamuklu"),
                  Undef, Undef, Undef, NoContentUrl,
                  <<PriceTextA>>, <<>>, <<"m.jpg">>, <<"m.jpg", "g.jpg">>)
NotOkPage == [GoodPageA EXCEPT !.ok = FALSE, !.status = 404]
NoScriptPage == [GoodPageB EXCEPT !.script = "none"]
BadJsonPage == [GoodPageB EXCEPT !.script = "badjson"]
NoTypePage == [GoodPageA EXCEPT !.type = FALSE]
NoPricePage == [GoodPageA EXCEPT !.offersPrice = Undef]
NoDescriptionPage == [GoodPageA EXCEPT !.description = Undef]
NoImagesPage == [GoodPageA EXCEPT !.contentUrl = ArrContentUrl(<<>>)]
NumericNamePage == [GoodPageA EXCEPT !.name = Num("5"), !.brandName = Undef]

CorePages == {GoodPageA, GoodPageB, NotOkPage, NoScriptPage, BadJsonPage,
              NoTypePage, NoPricePage, NoDescriptionPage, NoImagesPage,
              NumericNamePage}

\* Pages of the single-request specification: every combination of what
\* the handler reads.
SchemaPages ==
  {Page(TRUE, 200, "json", type, name, description, offersPrice, brand[1],
        brand[2], contentUrl, priceEl, altPriceEl, mainImage, gallery) :
     type \in BOOLEAN,
     name \in {Undef, Str(""), Str("Polo Tisort"), Num("5")},
     description \in {Undef, Str(""), Str("Pamuklu")},
     offersPrice \in {Undef, Num("100"), Str("abc")},
     brand \in {<<Undef, Undef>>, <<Str("Polo"), Undef>>, <<Undef, Str("Acme")>>},
     contentUrl \in {NoContentUrl, OneContentUrl("a.jpg"), ArrContentUrl(<<>>),
                     ArrContentUrl(<<"a.jpg", "b.jpg">>)},
     priceEl \in {<<>>, <<PriceTextA>>, <<EmptyText>>},
     altPriceEl \in {<<>>, <<PriceTextB>>},
     mainImage \in {<<>>, <<"m.jpg">>},
     gallery \in {<<>>, <<"m.jpg", "g.jpg">>}}

NoSchemaPages ==
  {Page(TRUE, 200, script, FALSE, Undef, Undef, Undef, Undef, Undef,
        NoContentUrl, priceEl, <<>>, mainImage, <<>>) :
     script \in {"none", "badjson"},
     priceEl \in {<<>>, <<PriceTextA>>},
     mainImage \in {<<>>, <<"m.jpg">>}}

FailedPages ==
  {Page(FALSE, status, "none", FALSE, Undef, Undef, Undef, Undef, Undef,
        NoContentUrl, <<>>, <<>>, <<>>, <<>>) : status \in {404, 500}}

AllPages == SchemaPages \cup NoSchemaPages \cup FailedPages \cup CorePages


\* ----------------------------------------------------- scrapePrice, the pages
\* Pages whose base price of c cents is found by the first, the second or
\* the third strategy.
OfferPricePage(c) == [GoodPageA EXCEPT !.offersPrice = Str(CentsText(c))]
PrimaryPricePage(c) ==
  [GoodPageA EXCEPT !.offersPrice = Undef, !.priceEl = <<<<" ", CentsText(c), " ", "TL">>>>]
AlternativePricePage(c) ==
  [GoodPageA EXCEPT !.offersPrice = Undef, !.altPriceEl = <<<<CentsText(c), "TL", " ">>>>]

PricePages ==
  {GoodPageA, GoodPageB, NoPricePage}
    \cup {OfferPricePage(c) : c \in 0..MaxBaseCents}
    \cup {PrimaryPricePage(c) : c \in 0..MaxBaseCents}
    \cup {AlternativePricePage(c) : c \in 0..MaxBaseCents}

\* --------------------------------------------------------- exportToShopify
\* Titles, handles, attribute names and values are character sequences.
\* toLowerCase of the characters the titles use.
lowerChar(c) ==
  CASE c = "P" -> "p" [] c = "T" -> "t" [] c = "A" -> "a" [] c = "B" -> "b"
    [] OTHER -> c
toLowerCase(s) == [i \in 1..Len(s) |-> lowerChar(s[i])]

AlnumLower == {"a", "b", "c", "l", "o", "p", "t", "0", "1", "2"}

\* .replace(/[^a-z0-9]+/g, '-'): every run of other characters becomes one
\* hyphen.
RECURSIVE hyphenate(_, _)
hyphenate(s, inRun) ==
  IF s = <<>> THEN <<>>
  ELSE IF Head(s) \in AlnumLower THEN <<Head(s)>> \o hyphenate(Tail(s), FALSE)
  ELSE IF inRun THEN hyphenate(Tail(s), TRUE)
  ELSE <<"-">> \o hyphenate(Tail(s), TRUE)

\* .replace(/-+/g, '-')
RECURSIVE collapseHyphens(_)
collapseHyphens(s) ==
  IF Len(s) < 2 THEN s
  ELSE IF s[1] = "-" /\ s[2] = "-" THEN collapseHyphens(Tail(s))
  ELSE <<Head(s)>> \o collapseHyphens(Tail(s))

\* .replace(/^-|-$/g, ''): one hyphen at the start and one at the end.
stripEdgeHyphens(s) ==
  LET a == IF s # <<>> /\ Head(s) = "-" THEN Tail(s) ELSE s
  IN IF a # <<>> /\ a[Len(a)] = "-" THEN SubSeq(a, 1, Len(a) - 1) ELSE a

makeHandle(title) ==
  stripEdgeHyphens(collapseHyphens(hyphenate(toLowerCase(title), FALSE)))

\* .replace(/"/g, '""'): every double quote is written twice (the string is
\* halved at each step, so that long strings need little depth).
RECURSIVE doubleQuotes(_)
doubleQuotes(s) ==
  IF s = <<>> THEN <<>>
  ELSE IF Len(s) = 1 THEN (IF s[1] = "\"" THEN <<"\"", "\"">> ELSE s)
  ELSE LET half == Len(s) \div 2
       IN doubleQuotes(SubSeq(s, 1, half)) \o doubleQuotes(SubSeq(s, half + 1, Len(s)))

\* Array.prototype.join of character sequences.
RECURSIVE joinWith(_, _)
joinWith(parts, sep) ==
  IF parts = <<>> THEN <<>>
  ELSE IF Len(parts) = 1 THEN parts[1]
  ELSE parts[1] \o sep \o joinWith(Tail(parts), sep)

\* .substring(0, 320)
SeoLimit == 320
substring0(s, n) == IF Len(s) <= n THEN s ELSE SubSeq(s, 1, n)

\* A front element of an array, or '' (sizes[0] || '').
firstOr(arr) == IF arr # <<>> THEN arr[1] ELSE ""

\* `${handle}-size-${i}` and the like: the handle, the infix, the number.
sku(handle, infix, i) == handle \o infix \o <<ToString(i)>>

attributesHtml(attributes) ==
  joinWith([i \in 1..Len(attributes) |->
              <<"<strong>">> \o attributes[i].key \o <<":", "</strong>", " ">>
                \o attributes[i].value],
           <<"<br>">>)

seoDescription(attributes) ==
  doubleQuotes(substring0(
    joinWith([i \in 1..Len(attributes) |->
                attributes[i].key \o <<":", " ">> \o attributes[i].value],
             <<".", " ">>),
    SeoLimit))

mainRecord(product) ==
  LET handle == makeHandle(product.title)
  IN ("Title" :> product.title) @@ ("Handle" :> handle)
     @@ ("Body (HTML)" :>
           doubleQuotes(<<"<div class=", "\"", "product-features", "\"", ">",
                          "<h3>Urun Ozellikleri</h3>",
                          "<div class=", "\"", "features-list", "\"", ">">>
                        \o attributesHtml(product.attributes)
                        \o <<"</div>", "</div>">>))
     @@ ("Vendor" :> product.brand)
     @@ ("Product Category" :> "Apparel & Accessories > Clothing")
     @@ ("Type" :> "Clothing")
     @@ ("Tags" :> joinWith([i \in 1..Len(product.categories) |->
                               <<product.categories[i]>>], <<",">>))
     @@ ("Published" :> "TRUE") @@ ("Status" :> "active")
     @@ ("SKU" :> sku(handle, <<"-">>, 1))
     @@ ("Barcode" :> "")
     @@ ("Option1 Name" :> IF Len(product.variants.sizes) > 0 THEN "Size" ELSE "")
     @@ ("Option1 Value" :> firstOr(product.variants.sizes))
     @@ ("Option2 Name" :> IF Len(product.variants.colors) > 0 THEN "Color" ELSE "")
     @@ ("Option2 Value" :> firstOr(product.variants.colors))
     @@ ("Option3 Name" :> "") @@ ("Option3 Value" :> "")
     @@ ("Price" :> product.price)
     @@ ("Inventory policy" :> "deny") @@ ("Inventory quantity" :> "100")
     @@ ("Requires shipping" :> "TRUE")
     @@ ("Weight" :> "500") @@ ("Weight unit" :> "g")
     @@ ("Image Src" :> firstOr(product.images))
     @@ ("Image Position" :> "1")
     @@ ("Image alt text" :> product.title)
     @@ ("Variant Image" :> "")
     @@ ("SEO Title" :> product.title)
     @@ ("SEO Description" :> seoDescription(product.attributes))

\* The columns a size row and a color row share.
variantBase(product, main) ==
  ("Handle" :> main["Handle"]) @@ ("Title" :> <<>>)
  @@ ("Body (HTML)" :> main["Body (HTML)"]) @@ ("Vendor" :> main["Vendor"])
  @@ ("Product Category" :> main["Product Category"]) @@ ("Type" :> main["Type"])
  @@ ("Tags" :> main["Tags"]) @@ ("Published" :> main["Published"])
  @@ ("Status" :> main["Status"])
  @@ ("Option3 Name" :> "") @@ ("Option3 Value" :> "")
  @@ ("Price" :> product.price)
  @@ ("Inventory policy" :> "deny") @@ ("Inventory quantity" :> "100")
  @@ ("Requires shipping" :> "TRUE")
  @@ ("Weight" :> main["Weight"]) @@ ("Weight unit" :> main["Weight unit"])

sizeRecord(product, main, i) ==
  variantBase(product, main)
  @@ ("Option1 Name" :> "Size")
  @@ ("Option1 Value" :> product.variants.sizes[i + 1])
  @@ ("Option2 Name" :> main["Option2 Name"])
  @@ ("Option2 Value" :> main["Option2 Value"])
  @@ ("SKU" :> sku(main["Handle"], <<"-size-">>, i))

\* The mutant gives every color row the first image.
colorRecordFirstImage(product, main, i) ==
  LET variantImage == firstOr(product.images)
  IN variantBase(product, main)
     @@ ("Option1 Name" :> main["Option1 Name"])
     @@ ("Option1 Value" :> main["Option1 Value"])
     @@ ("Option2 Name" :> "Color")
     @@ ("Option2 Value" :> product.variants.colors[i + 1])
     @@ ("SKU" :> sku(main["Handle"], <<"-color-">>, i))
     @@ ("Image Src" :> variantImage)
     @@ ("Image Position" :> ToString(i + 1))
     @@ ("Variant Image" :> variantImage)

\* A color row: its image is product.images[i] || product.images[0].
colorRecord(product, main, i) ==
  LET variantImage == IF i + 1 <= Len(product.images) /\ product.images[i + 1] # ""
                        THEN product.images[i + 1] ELSE firstOr(product.images)
  IN variantBase(product, main)
     @@ ("Option1 Name" :> main["Option1 Name"])
     @@ ("Option1 Value" :> main["Option1 Value"])
     @@ ("Option2 Name" :> "Color")
     @@ ("Option2 Value" :> product.variants.colors[i + 1])
     @@ ("SKU" :> sku(main["Handle"], <<"-color-">>, i))
     @@ ("Image Src" :> variantImage)
     @@ ("Image Position" :> ToString(i + 1))
     @@ ("Variant Image" :> variantImage)

\* records: the main record, a record per size from index 1 on, a record
\* per color from index 1 on (i is the code's zero-based index).
exportRecords(product) ==
  LET main == mainRecord(product)
  IN <<main>>
     \o [i \in 1..(Len(product.variants.sizes) - 1) |-> sizeRecord(product, main, i)]
     \o [i \in 1..(Len(product.variants.colors) - 1) |-> colorRecord(product, main, i)]

\* The header handed to createObjectCsvWriter, in its order.
csvHeader ==
  <<"Title", "Handle", "Body (HTML)", "Vendor", "Product Category", "Type",
    "Tags", "Published", "Status", "Option1 Name", "Option1 Value",
    "Option2 Name", "Option2 Value", "Option3 Name", "Option3 Value", "SKU",
    "Price", "Inventory policy", "Inventory quantity", "Requires shipping",
    "Weight", "Weight unit", "Image Src", "Image Position", "Image alt text",
    "Variant Image", "SEO Title", "SEO Description">>

\* csvWriter.writeRecords: per record, the value of each header column in
\* header order; a column the record lacks is written empty.
csvLines(records) ==
  [k \in 1..Len(records) |->
     [j \in 1..Len(csvHeader) |->
        IF csvHeader[j] \in DOMAIN records[k]
          THEN <<records[k][csvHeader[j]]>> ELSE <<>>]]

\* ------------------------------------------------- POST /api/export, bodies
Attr(key, value) == [key |-> key, value |-> value]
ExportProduct(title, sizes, colors, images, attributes) ==
  [t |-> "object", title |-> title, brand |-> "Polo", price |-> "115.00",
   categories |-> <<"Erkek", "Tisort">>, images |-> images,
   variants |-> [sizes |-> sizes, colors |-> colors], attributes |-> attributes]

WellFormedProducts ==
  {ExportProduct(title, sizes, colors, images, attributes) :
     title \in {<<"P", "o", "l", "o", " ", "T">>, <<"A", "b", "!", "!", "2", "-">>},
     sizes \in {<<>>, <<"S", "M">>},
     colors \in {<<>>, <<"Red", "Blue">>},
     images \in {<<"a.jpg">>, <<"a.jpg", "b.jpg", "c.jpg">>},
     attributes \in {<<>>, <<Attr(<<"b">>, <<"\"", "c">>), Attr(<<"l">>, <<"o">>)>>}}

\* Most sizes, colors and images of a product of the row pool.
MaxVariants == 3

NamedList(prefix, n) == [i \in 1..n |-> prefix \o ToString(i)]

\* An attribute value of SeoLimit characters that begins with a double quote.
LongQuoted == [i \in 1..SeoLimit |-> IF i = 1 THEN "\"" ELSE "a"]

\* Products over every number of sizes, colors and images.
RowProducts ==
  {ExportProduct(<<"P", "o", "l", "o", " ", "T">>, NamedList("S", s), NamedList("C", c),
                 NamedList("img", n), attributes) :
     s \in 0..MaxVariants, c \in 0..MaxVariants, n \in 1..MaxVariants,
     attributes \in {<<>>, <<Attr(<<"b">>, <<"\"", "c">>), Attr(<<"l">>, <<"o">>)>>,
                     <<Attr(<<"k">>, LongQuoted)>>}}

\* req.body.product is undefined (no payload), or an object without the
\* fields exportToShopify reads, or a product.
NoProduct == [t |-> "undefined"]
EmptyObject == [t |-> "emptyObject"]
ExportBodies == {NoProduct, EmptyObject} \cup WellFormedProducts

\* ------------------------------------------------ server/category-mapping.ts
\* Category strings and keys are character sequences; the Turkish letters
\* are the one-character tokens "ii" (dotless i), "sh" (s cedilla),
\* "oe" (o umlaut), "ue" (u umlaut).
KeyErkek == <<"e", "r", "k", "e", "k">>
KeyKadin == <<"k", "a", "d", "ii", "n">>
KeyTisort == <<"t", "i", "sh", "oe", "r", "t">>
KeyCuzdan == <<"c", "ue", "z", "d", "a", "n">>
KeyKartlik == <<"k", "a", "r", "t", "l", "ii", "k">>
KeySneaker == <<"s", "n", "e", "a", "k", "e", "r">>

Config(shopifyCategory, sizeLabel, materialLabel, defaultStock, attributes) ==
  [shopifyCategory |-> shopifyCategory,
   variantConfig |-> [sizeLabel |-> sizeLabel, colorLabel |-> <<"Renk">>,
                      materialLabel |-> materialLabel,
                      defaultStock |-> defaultStock, hasVariants |-> TRUE],
   attributes |-> attributes, inventoryTracking |-> TRUE]

ClothingAttributes == <<"Kumas", "Desen", "Yaka Tipi", "Kol Boyu">>

\* Object.entries(categoryMapping), in insertion order.
categoryMapping ==
  <<[key |-> KeyErkek,
     config |-> Config("Apparel & Accessories > Clothing > Men's Clothing",
                       <<"Beden">>, <<>>, 50, ClothingAttributes)],
    [key |-> KeyKadin,
     config |-> Config("Apparel & Accessories > Clothing > Women's Clothing",
                       <<"Beden">>, <<>>, 50, ClothingAttributes)],
    [key |-> KeyTisort,
     config |-> Config("Apparel & Accessories > Clothing > Shirts & Tops",
                       <<"Beden">>, <<>>, 50, ClothingAttributes)],
    [key |-> KeyCuzdan,
     config |-> Config("Apparel & Accessories > Handbags, Wallets & Cases > Wallets & Money Clips",
                       <<>>, <<"Materyal">>, 50,
                       <<"Malzeme", "Boyut", "Bolme Sayisi", "Kart Bolmesi">>)],
    [key |-> KeyKartlik,
     config |-> Config("Apparel & Accessories > Handbags, Wallets & Cases > Wallets & Money Clips",
                       <<>>, <<"Materyal">>, 50,
                       <<"Malzeme", "Boyut", "Kart Bolmesi">>)],
    [key |-> KeySneaker,
     config |-> Config("Apparel & Accessories > Shoes > Athletic Shoes",
                       <<"Numara">>, <<>>, 30,
                       <<"Taban", "Materyal", "Bagcik", "Kullanim Alani">>)]>>

DefaultConfig ==
  Config("Apparel & Accessories > Clothing", <<"Beden">>, <<>>, 50, <<>>)

\* categoryMapping[key]
mappingOf(key) ==
  (CHOOSE e \in {categoryMapping[i] : i \in 1..Len(categoryMapping)} :
     e.key = key).config

\* toLowerCase of the characters the category strings use.
lowerCatChar(c) ==
  CASE c = "E" -> "e" [] c = "G" -> "g" [] c = "K" -> "k" [] c = "S" -> "s"
    [] c = "T" -> "t" [] c = "C" -> "c"
    [] OTHER -> c

\* c.toLowerCase().trim()
normalizeCategory(c) == Trim([i \in 1..Len(c) |-> lowerCatChar(c[i])])

\* Array.prototype.find over the entries: <<>> or <<entry>>.
RECURSIVE findEntry(_, _, _)
findEntry(entries, category, exactToo) ==
  IF entries = <<>> THEN <<>>
  ELSE IF (exactToo /\ category = Head(entries).key)
            \/ Includes(category, Head(entries).key)
    THEN <<Head(entries)>>
  ELSE findEntry(Tail(entries), category, exactToo)

\* A for loop over the categories that returns at the first one with an
\* entry: <<>> or <<config>>.
RECURSIVE firstMatch(_, _)
firstMatch(categories, exactToo) ==
  IF categories = <<>> THEN <<>>
  ELSE LET found == findEntry(categoryMapping, Head(categories), exactToo)
       IN IF found # <<>> THEN <<found[1].config>>
          ELSE firstMatch(Tail(categories), exactToo)

\* getCategoryConfig: the first loop (category === key || includes), the
\* second loop (includes), the gender fallback, the default.
getCategoryConfig(categories) ==
  LET normalizedCategories ==
        [i \in 1..Len(categories) |-> normalizeCategory(categories[i])]
      some(key) == \E i \in 1..Len(normalizedCategories) :
                     Includes(normalizedCategories[i], key)
  IN IF firstMatch(normalizedCategories, TRUE) # <<>>
       THEN firstMatch(normalizedCategories, TRUE)[1]
     ELSE IF firstMatch(normalizedCategories, FALSE) # <<>>
       THEN firstMatch(normalizedCategories, FALSE)[1]
     ELSE IF some(KeyErkek) THEN mappingOf(KeyErkek)
     ELSE IF some(KeyKadin) THEN mappingOf(KeyKadin)
     ELSE DefaultConfig

\* The category strings handed to getCategoryConfig.
CatErkekGiyim == <<"E", "r", "k", "e", "k", " ", "G", "i", "y", "i", "m">>
CatTisort == <<"T", "i", "sh", "oe", "r", "t">>
CatTisortPadded == <<" ", "t", "i", "sh", "oe", "r", "t", " ">>
CatKadin == <<"K", "a", "d", "ii", "n">>
CatSneakerler == <<"S", "n", "e", "a", "k", "e", "r", "l", "e", "r">>
CatGiyim == <<"G", "i", "y", "i", "m">>
CatCuzdan == <<"C", "ue", "z", "d", "a", "n">>
CatEmpty == <<>>
CategoryStrings == {CatErkekGiyim, CatTisort, CatTisortPadded, CatKadin,
                    CatSneakerler, CatGiyim, CatCuzdan, CatEmpty}

RECURSIVE ListsUpTo(_, _)
ListsUpTo(S, n) ==
  IF n = 0 THEN {<<>>}
  ELSE LET shorter == ListsUpTo(S, n - 1)
       IN shorter \cup {Append(l, x) : l \in {m \in shorter : Len(m) = n - 1}, x \in S}

CategoryLists == ListsUpTo(CategoryStrings, MaxCats)

\* ---------------------------------------------------------- scrapeVariants
\* Text nodes and sizes are character sequences.
\* $(selector).map((_, el) => $(el).text().trim()).get().filter(Boolean)
RECURSIVE trimmedTexts(_)
trimmedTexts(nodes) ==
  IF nodes = <<>> THEN <<>>
  ELSE LET text == Trim(Head(nodes))
       IN (IF text = <<>> THEN <<>> ELSE <<text>>) \o trimmedTexts(Tail(nodes))

\* size.includes('XS') && size.includes('S') && size.includes('M')
isComposite(size) ==
  /\ Includes(size, <<"X", "S">>)
  /\ Includes(size, <<"S">>)
  /\ Includes(size, <<"M">>)

\* The reduce: the composite tokens are left out, the others kept in order.
parsedSizes(foundSizes) == SelectSeq(foundSizes, LAMBDA size : ~isComposite(size))

\* [...new Set(list)]: the first occurrence of every value, in order.
RECURSIVE uniq(_)
uniq(list) ==
  IF list = <<>> THEN <<>>
  ELSE LET init == uniq(SubSeq(list, 1, Len(list) - 1))
           last == list[Len(list)]
       IN IF \E i \in 1..Len(init) : init[i] = last THEN init
          ELSE Append(init, last)

sizeOrder ==
  (<<"X", "X", "S">> :> 1) @@ (<<"X", "S">> :> 2) @@ (<<"S">> :> 3)
    @@ (<<"M">> :> 4) @@ (<<"L">> :> 5) @@ (<<"X", "L">> :> 6)
    @@ (<<"2", "X", "L">> :> 7) @@ (<<"3", "X", "L">> :> 8)
    @@ (<<"4", "X", "L">> :> 9) @@ (<<"5", "X", "L">> :> 10)
    @@ (<<"6", "X", "L">> :> 11)

UnknownRank == 99

\* sizeOrder[a] || 99
rank(size) == IF size \in DOMAIN sizeOrder THEN sizeOrder[size] ELSE UnknownRank

\* The mutant puts an element before those of its own rank.
insertByRankBeforeEqual(sorted, x) ==
  LET k == Cardinality({i \in 1..Len(sorted) : rank(sorted[i]) < rank(x)})
  IN SubSeq(sorted, 1, k) \o <<x>> \o SubSeq(sorted, k + 1, Len(sorted))

\* One step of the stable sort: x goes behind the elements whose rank is
\* not greater (sorted is in rank order).
insertByRank(sorted, x) ==
  LET k == Cardinality({i \in 1..Len(sorted) : rank(sorted[i]) <= rank(x)})
  IN SubSeq(sorted, 1, k) \o <<x>> \o SubSeq(sorted, k + 1, Len(sorted))

\* Array.prototype.sort with the comparator rank(a) - rank(b); the sort is
\* stable.
RECURSIVE sortBySizeOrder(_)
sortBySizeOrder(list) ==
  IF list = <<>> THEN <<>>
  ELSE insertByRank(sortBySizeOrder(SubSeq(list, 1, Len(list) - 1)), list[Len(list)])

uniqueSizes(foundSizes) == sortBySizeOrder(uniq(parsedSizes(foundSizes)))

sizeSelectors ==
  <<".sp-itm:not(.so)", ".variant-list-item:not(.disabled)",
    ".size-variant-wrapper:not(.disabled)", ".v2-size-value">>

colorSelectors ==
  <<".slc-txt", ".color-variant-wrapper", ".variant-property-list span",
    "[data-pk=color] .variant-list-item">>

\* The mutant stops at the first selector with text nodes, whatever is left
\* of them.
RECURSIVE sizeLoopStopAtFound(_, _)
sizeLoopStopAtFound(page, i) ==
  IF i > Len(sizeSelectors) THEN [sizes |-> <<>>, queried |-> <<>>]
  ELSE LET foundSizes == trimmedTexts(page.sizeNodes[i])
           rest == sizeLoopStopAtFound(page, i + 1)
       IN IF foundSizes # <<>>
            THEN [sizes |-> uniqueSizes(foundSizes), queried |-> <<sizeSelectors[i]>>]
            ELSE [sizes |-> rest.sizes, queried |-> <<sizeSelectors[i]>> \o rest.queried]

\* The loop over sizeSelectors from the i-th on: the sizes it leaves in
\* variants.sizes and the selectors it has queried. The break is taken only
\* with a non-empty uniqueSizes.
RECURSIVE sizeLoop(_, _)
sizeLoop(page, i) ==
  IF i > Len(sizeSelectors) THEN [sizes |-> <<>>, queried |-> <<>>]
  ELSE LET foundSizes == trimmedTexts(page.sizeNodes[i])
           rest == sizeLoop(page, i + 1)
       IN IF foundSizes # <<>> /\ uniqueSizes(foundSizes) # <<>>
            THEN [sizes |-> uniqueSizes(foundSizes), queried |-> <<sizeSelectors[i]>>]
            ELSE [sizes |-> rest.sizes, queried |-> <<sizeSelectors[i]>> \o rest.queried]

\* The loop over colorSelectors from the i-th on.
RECURSIVE colorLoop(_, _)
colorLoop(page, i) ==
  IF i > Len(colorSelectors) THEN <<>>
  ELSE LET colors == trimmedTexts(page.colorNodes[i])
       IN IF colors # <<>> THEN uniq(colors) ELSE colorLoop(page, i + 1)

\* push unless falsy or included
pushIfNew(list, x) ==
  IF x # <<>> /\ ~(\E i \in 1..Len(list) : list[i] = x) THEN Append(list, x)
  ELSE list

\* schema.hasVariant.forEach over the first n entries.
RECURSIVE withSchemaVariants(_, _, _)
withSchemaVariants(variants, hasVariant, n) ==
  IF n = 0 THEN variants
  ELSE LET before == withSchemaVariants(variants, hasVariant, n - 1)
       IN [before EXCEPT !.sizes = pushIfNew(@, hasVariant[n].size),
                         !.colors = pushIfNew(@, hasVariant[n].color)]

\* scrapeVariants: sizes, colors, then the variants of the structured data;
\* nothing in it throws on these pages.
scrapeVariants(page) ==
  LET fromSelectors == sizeLoop(page, 1)
      variants == [sizes |-> fromSelectors.sizes, colors |-> colorLoop(page, 1),
                   queried |-> fromSelectors.queried]
  IN IF page.hasVariant # <<>>
       THEN withSchemaVariants(variants, page.hasVariant[1], Len(page.hasVariant[1]))
       ELSE variants

\* ------------------------------------------------ scrapeVariants, the pages
\* Longest list of text nodes a selector matches on the pages of the sort.
MaxSizes == 4

NodeS == <<"S">>
NodeM == <<"M">>
NodeL == <<"L">>
NodeXS == <<"X", "S">>
NodeComposite == <<"X", "S", "S", "M", "L", "X", "L">>
Node38 == <<"3", "8">>
Node36 == <<"3", "6">>
NodePaddedM == <<" ", "M", " ">>
NodeBlank == <<" ">>
SizeNodes ==
  {NodeS, NodeM, NodeL, NodeXS, NodeComposite, Node38, Node36, NodePaddedM, NodeBlank}

NodeRed == <<"R", "e", "d">>
NodeBlue == <<"B", "l", "u", "e">>

VariantPage(sizeNodes, colorNodes, hasVariant) ==
  [sizeNodes |-> sizeNodes, colorNodes |-> colorNodes, hasVariant |-> hasVariant]

RECURSIVE NodeListsUpTo(_)
NodeListsUpTo(n) ==
  IF n = 0 THEN {<<>>}
  ELSE LET shorter == NodeListsUpTo(n - 1)
       IN shorter \cup {Append(l, x) : l \in {m \in shorter : Len(m) = n - 1}, x \in SizeNodes}

NoNodes == <<<<>>, <<>>, <<>>, <<>>>>

\* Pages on which the first size selector alone matches.
SortPages == {VariantPage(<<l, <<>>, <<>>, <<>>>>, NoNodes, <<>>) : l \in NodeListsUpTo(MaxSizes)}

SelectorMatches == {<<>>, <<NodeBlank>>, <<NodeComposite>>, <<NodeM, NodeS, NodeM>>, <<Node38>>}
ColorMatches ==
  {NoNodes, <<<<NodeRed, NodeBlue, NodeRed>>, <<NodeBlue>>, <<>>, <<>>>>,
   <<<<NodeBlank>>, <<>>, <<NodeBlue>>, <<NodeRed>>>>}
SchemaVariants ==
  {<<>>, <<<<[size |-> NodeL, color |-> NodeRed], [size |-> NodeS, color |-> <<>>]>>>>}

\* Pages on which several selectors match.
SelectorPages ==
  {VariantPage(<<a, b, c, d>>, colorNodes, hasVariant) :
     a \in SelectorMatches, b \in SelectorMatches, c \in SelectorMatches,
     d \in SelectorMatches, colorNodes \in ColorMatches, hasVariant \in SchemaVariants}

VariantPages == SortPages \cup SelectorPages

\* ------------------------------------------------- scrapeProductAttributes
\* Labels and values are the trimmed texts; '' stands for an empty text.
\* The attributes object together with the assignments made to it, in order.
NoAttributes == [attributes |-> EmptyMap, writes |-> <<>>]

\* attributes[label] = value
assign(st, label, value, strategy) ==
  [attributes |-> [k \in DOMAIN st.attributes \cup {label} |->
                     IF k = label THEN value ELSE st.attributes[k]],
   writes |-> Append(st.writes, [key |-> label, value |-> value, strategy |-> strategy])]

\* attributes[label] is truthy
hasAttribute(st, label) == label \in DOMAIN st.attributes /\ st.attributes[label] # ""

\* if (label && value) attributes[label] = value, over the first n pairs
\* (strategies 1, 2 and 5).
RECURSIVE assignEach(_, _, _, _)
assignEach(st, pairs, n, strategy) ==
  IF n = 0 THEN st
  ELSE LET before == assignEach(st, pairs, n - 1, strategy)
       IN IF pairs[n].label # "" /\ pairs[n].value # ""
            THEN assign(before, pairs[n].label, pairs[n].value, strategy)
            ELSE before

\* if (label && value && !attributes[label]) attributes[label] = value, over
\* the first n elements of the six selectors (strategy 3).
RECURSIVE assignAbsent(_, _, _)
assignAbsent(st, pairs, n) ==
  IF n = 0 THEN st
  ELSE LET before == assignAbsent(st, pairs, n - 1)
       IN IF pairs[n].label # "" /\ pairs[n].value # ""
               /\ ~hasAttribute(before, pairs[n].label)
            THEN assign(before, pairs[n].label, pairs[n].value, 3)
            ELSE before

\* The keys of specialAttributes, in order.
specialAttributes ==
  <<"Materyal", "Parca Sayisi", "Renk", "Desen", "Yikama Talimati", "Mensei">>

\* if (value) attributes[key] = value, over the first n values the key's
\* alternatives select.
RECURSIVE assignValues(_, _, _, _)
assignValues(st, key, values, n) ==
  IF n = 0 THEN st
  ELSE LET before == assignValues(st, key, values, n - 1)
       IN IF values[n] # "" THEN assign(before, key, values[n], 4) ELSE before

\* The loop over the first n keys of specialAttributes (strategy 4): a key
\* is looked for only if (!attributes[key]).
RECURSIVE assignSpecial(_, _, _)
assignSpecial(st, page, n) ==
  IF n = 0 THEN st
  ELSE LET before == assignSpecial(st, page, n - 1)
           key == specialAttributes[n]
       IN IF ~hasAttribute(before, key)
            THEN assignValues(before, key, page.special[key], Len(page.special[key]))
            ELSE before

\* scrapeProductAttributes: the five strategies in order; nothing in it
\* throws on these pages.
scrapeProductAttributes(page) ==
  LET s1 == assignEach(NoAttributes, page.additionalProperty, Len(page.additionalProperty), 1)
      s2 == assignEach(s1, page.tableRows, Len(page.tableRows), 2)
      s3 == assignAbsent(s2, page.items, Len(page.items))
      s4 == assignSpecial(s3, page, Len(specialAttributes))
  IN assignEach(s4, page.grouped, Len(page.grouped), 5)

\* --------------------------------------- scrapeProductAttributes, the pages
Pair(label, value) == [label |-> label, value |-> value]
NoSpecial == [key \in {specialAttributes[i] : i \in 1..Len(specialAttributes)} |-> <<>>]

AttributePage(additionalProperty, tableRows, items, renk, grouped) ==
  [additionalProperty |-> additionalProperty, tableRows |-> tableRows, items |-> items,
   special |-> [NoSpecial EXCEPT !["Renk"] = renk], grouped |-> grouped]

AttributePages ==
  {AttributePage(additionalProperty, tableRows, items, renk, grouped) :
     additionalProperty \in {<<>>, <<Pair("Renk", "Kirmizi")>>,
                             <<Pair("Desen", "Duz"), Pair("Renk", "")>>},
     tableRows \in {<<>>, <<Pair("Renk", "Mavi")>>, <<Pair("Kumas", "Pamuk")>>},
     items \in {<<>>, <<Pair("Renk", "Yesil")>>, <<Pair("Desen", "Cizgili"), Pair("", "x")>>},
     renk \in {<<>>, <<"Siyah">>, <<"", "Siyah", "Beyaz">>},
     grouped \in {<<>>, <<Pair("Renk", "Gri")>>, <<Pair("Kalip", "Slim")>>}}

\* ------------------------------------------------------------------ state
Reqs == {"r1", "r2"}
Exps == {"e1", "e2"}

VARIABLES
  products,    \* MemStorage.products: url -> Product
  currentId,   \* MemStorage.currentId
  saveLog,     \* the ids saveProduct has returned, in call order
  fetches,     \* per url, the number of fetch calls issued for it
  started,     \* the number of scrape requests received
  req,         \* per connection, the scrape handler's locals and position
  file,        \* products.csv: <<>> while absent, else <<its lines>>
  exported,    \* the number of export requests received
  exp,         \* per connection, the export handler's locals and position
  categories,  \* the list handed to getCategoryConfig
  config,      \* what getCategoryConfig returned: <<>> before the call
  doc,         \* the parsed page handed to an extractor: <<>> or <<page>>
  extracted    \* what the extractor returned: <<>> before the call

scrapeVars == <<products, currentId, saveLog, fetches, started, req>>
exportVars == <<file, exported, exp>>
categoryVars == <<categories, config>>
extractorVars == <<doc, extracted>>
vars == <<scrapeVars, exportVars, categoryVars, extractorVars>>

\* The handler's locals before a request: nothing read, nothing answered.
IdleReq ==
  [pc |-> "idle", body |-> <<>>, existing |-> <<>>, page |-> <<>>,
   product |-> <<>>, saved |-> <<>>, res |-> <<>>]

\* The export handler's locals before a request.
IdleExp == [pc |-> "idle", body |-> <<>>, records |-> <<>>, res |-> <<>>]

\* The server after start: new MemStorage(), no products.csv, no request.
InitServer ==
  /\ products = EmptyMap
  /\ currentId = 1
  /\ saveLog = <<>>
  /\ fetches = [u \in {b.raw : b \in ScrapeBodies} |-> 0]
  /\ started = 0
  /\ req = [r \in Reqs |-> IdleReq]
  /\ file = <<>>
  /\ exported = 0
  /\ exp = [e \in Exps |-> IdleExp]

Init ==
  /\ InitServer
  /\ categories = <<>>
  /\ config = <<>>
  /\ doc = <<>>
  /\ extracted = <<>>

\* -------------------------------------------------- POST /api/scrape, steps
\* The mutant never takes the cached record.
cacheHitNever(existing) == FALSE

\* if (existing)
cacheHit(existing) == existing # <<>>

\* The request arrives: urlSchema.parse, then storage.getProduct is called
\* (its body runs at the call; the handler then awaits).
ScrapeStart(r, body) ==
  /\ req[r].pc = "idle"
  /\ started < MaxRequests
  /\ started' = started + 1
  /\ IF urlSchemaOk(body)
       THEN req' = [req EXCEPT ![r] =
                      [IdleReq EXCEPT !.pc = "lookedUp", !.body = <<body>>,
                                      !.existing = getProduct(products, body.raw)]]
       ELSE req' = [req EXCEPT ![r] =
                      [IdleReq EXCEPT !.pc = "done", !.body = <<body>>,
                         !.res = <<ErrorResponse(OtherError("ZodError",
                                      "Gecerli bir Trendyol urun URL'si giriniz"))>>]]
  /\ UNCHANGED <<products, currentId, saveLog, fetches>>
  /\ UNCHANGED <<exportVars, categoryVars, extractorVars>>

\* After the lookup: answer from the cache, or issue the fetch.
ScrapeCacheCheck(r) ==
  /\ req[r].pc = "lookedUp"
  /\ IF cacheHit(req[r].existing)
       THEN /\ req' = [req EXCEPT ![r].pc = "done",
                                  ![r].res = <<JsonResponse(req[r].existing[1])>>]
            /\ UNCHANGED fetches
       ELSE /\ req' = [req EXCEPT ![r].pc = "fetching"]
            /\ fetches' = [fetches EXCEPT ![req[r].body[1].raw] = @ + 1]
  /\ UNCHANGED <<products, currentId, saveLog, started>>
  /\ UNCHANGED <<exportVars, categoryVars, extractorVars>>

\* The mutant takes an id before it answers an error.
FetchReturnSavesPartial(r, page) ==
  /\ req[r].pc = "fetching"
  /\ LET out == assemble(req[r].body[1].raw, page)
     IN IF out.threw
          THEN /\ req' = [req EXCEPT ![r].pc = "done", ![r].page = <<page>>,
                                     ![r].res = <<ErrorResponse(out.error[1])>>]
               /\ currentId' = currentId + 1
          ELSE /\ req' = [req EXCEPT ![r].pc = "assembled", ![r].page = <<page>>,
                                     ![r].product = out.product]
               /\ UNCHANGED currentId
  /\ UNCHANGED <<products, saveLog, fetches, started>>
  /\ UNCHANGED <<exportVars, categoryVars, extractorVars>>

\* The fetch response arrives and the page is read and assembled; an error
\* thrown on the way is answered through handleError.
FetchReturn(r, page) ==
  /\ req[r].pc = "fetching"
  /\ LET out == assemble(req[r].body[1].raw, page)
     IN IF out.threw
          THEN req' = [req EXCEPT ![r].pc = "done", ![r].page = <<page>>,
                                  ![r].res = <<ErrorResponse(out.error[1])>>]
          ELSE req' = [req EXCEPT ![r].pc = "assembled", ![r].page = <<page>>,
                                  ![r].product = out.product]
  /\ UNCHANGED <<products, currentId, saveLog, fetches, started>>
  /\ UNCHANGED <<exportVars, categoryVars, extractorVars>>

\* storage.saveProduct(product) is called (its body runs at the call).
ScrapeSave(r) ==
  /\ req[r].pc = "assembled"
  /\ LET s == saveProduct(products, currentId, req[r].product[1])
     IN /\ products' = s.products
        /\ currentId' = s.currentId
        /\ saveLog' = Append(saveLog, s.product.id)
        /\ req' = [req EXCEPT ![r].pc = "saved", ![r].saved = <<s.product>>]
  /\ UNCHANGED <<fetches, started>>
  /\ UNCHANGED <<exportVars, categoryVars, extractorVars>>

\* res.json(saved)
ScrapeRespond(r) ==
  /\ req[r].pc = "saved"
  /\ req' = [req EXCEPT ![r].pc = "done",
                        ![r].res = <<JsonResponse(req[r].saved[1])>>]
  /\ UNCHANGED <<products, currentId, saveLog, fetches, started>>
  /\ UNCHANGED <<exportVars, categoryVars, extractorVars>>

\* The handler has returned; the connection can carry the next request.
ScrapeReturn(r) ==
  /\ req[r].pc = "done"
  /\ req' = [req EXCEPT ![r] = IdleReq]
  /\ UNCHANGED <<products, currentId, saveLog, fetches, started>>
  /\ UNCHANGED <<exportVars, categoryVars, extractorVars>>

\* Concurrent scrape requests over the outcome pages.
Next ==
  \/ \E r \in Reqs, body \in ScrapeBodies : ScrapeStart(r, body)
  \/ \E r \in Reqs : ScrapeCacheCheck(r)
  \/ \E r \in Reqs : req[r].pc = "fetching"
                       /\ \E page \in CorePages : FetchReturn(r, page)
  \/ \E r \in Reqs : ScrapeSave(r)
  \/ \E r \in Reqs : ScrapeRespond(r)
  \/ \E r \in Reqs : ScrapeReturn(r)

Spec == Init /\ [][Next]_vars

\* One scrape request on a fresh server, over every page.
NextPage ==
  \/ \E body \in ScrapeBodies : started = 0 /\ ScrapeStart("r1", body)
  \/ ScrapeCacheCheck("r1")
  \/ req["r1"].pc = "fetching" /\ \E page \in AllPages : FetchReturn("r1", page)
  \/ ScrapeSave("r1")
  \/ ScrapeRespond("r1")

SpecPage == Init /\ [][NextPage]_vars

\* -------------------------------------------------- POST /api/export, steps
\* The mutant reports the missing payload as an unexpected error.
exportAttemptUnclassified(body) ==
  IF body.t = "undefined"
    THEN [threw |-> TRUE, records |-> <<>>,
          error |-> <<OtherError("Error", "Urun verisi bulunamadi")>>]
  ELSE IF body.t = "emptyObject"
    THEN [threw |-> TRUE, records |-> <<>>,
          error |-> <<OtherError("TypeError",
                                 "Cannot read properties of undefined")>>]
  ELSE [threw |-> FALSE, records |-> exportRecords(body), error |-> <<>>]

\* The handler's try block up to the call of writeRecords: without a
\* product a ProductDataError is thrown; exportToShopify builds the
\* records, and reading product.title.toLowerCase of an object without a
\* title throws a TypeError.
exportAttempt(body) ==
  IF body.t = "undefined"
    THEN [threw |-> TRUE, records |-> <<>>,
          error |-> <<ProductDataError("Urun verisi bulunamadi", "product")>>]
  ELSE IF body.t = "emptyObject"
    THEN [threw |-> TRUE, records |-> <<>>,
          error |-> <<OtherError("TypeError",
                                 "Cannot read properties of undefined")>>]
  ELSE [threw |-> FALSE, records |-> exportRecords(body), error |-> <<>>]

\* The request arrives: an error thrown is answered through handleError,
\* otherwise writeRecords has been called with the records.
ExportStart(e, body) ==
  /\ exp[e].pc = "idle"
  /\ exported < MaxExports
  /\ exported' = exported + 1
  /\ LET out == exportAttempt(body)
     IN IF out.threw
          THEN exp' = [exp EXCEPT ![e] =
                         [IdleExp EXCEPT !.pc = "done", !.body = <<body>>,
                                         !.res = <<ErrorResponse(out.error[1])>>]]
          ELSE exp' = [exp EXCEPT ![e] =
                         [IdleExp EXCEPT !.pc = "writing", !.body = <<body>>,
                                         !.records = out.records]]
  /\ UNCHANGED <<file, scrapeVars, categoryVars, extractorVars>>

\* csvWriter.writeRecords completes: products.csv holds the header line and
\* this request's lines.
ExportWrite(e) ==
  /\ exp[e].pc = "writing"
  /\ file' = <<[header |-> csvHeader, lines |-> csvLines(exp[e].records)]>>
  /\ exp' = [exp EXCEPT ![e].pc = "written"]
  /\ UNCHANGED <<exported, scrapeVars, categoryVars, extractorVars>>

\* res.download('products.csv'): the file as it is now is sent.
ExportDownload(e) ==
  /\ exp[e].pc = "written"
  /\ exp' = [exp EXCEPT ![e].pc = "done",
                        ![e].res = <<[status |-> 200, kind |-> "file",
                                      content |-> file]>>]
  /\ UNCHANGED <<file, exported, scrapeVars, categoryVars, extractorVars>>

\* The handler has returned; the connection can carry the next request.
ExportReturn(e) ==
  /\ exp[e].pc = "done"
  /\ exp' = [exp EXCEPT ![e] = IdleExp]
  /\ UNCHANGED <<file, exported, scrapeVars, categoryVars, extractorVars>>

\* Concurrent export requests.
NextExport ==
  \/ \E e \in Exps : exp[e].pc = "idle"
                       /\ \E body \in ExportBodies : ExportStart(e, body)
  \/ \E e \in Exps : ExportWrite(e)
  \/ \E e \in Exps : ExportDownload(e)
  \/ \E e \in Exps : ExportReturn(e)

SpecExport == Init /\ [][NextExport]_vars

\* One export request on a fresh server, over every product of the row pool.
NextRows ==
  \/ exported = 0 /\ \E body \in RowProducts : ExportStart("e1", body)
  \/ ExportWrite("e1")
  \/ ExportDownload("e1")

SpecRows == Init /\ [][NextRows]_vars

\* ------------------------------------------------------- getCategoryConfig
\* The call.
ResolveCategory ==
  /\ config = <<>>
  /\ config' = <<getCategoryConfig(categories)>>
  /\ UNCHANGED <<categories, scrapeVars, exportVars, extractorVars>>

\* getCategoryConfig on every list of the category strings.
InitCategory ==
  /\ InitServer
  /\ categories \in CategoryLists
  /\ config = <<>>
  /\ doc = <<>>
  /\ extracted = <<>>

SpecCategory == InitCategory /\ [][ResolveCategory]_vars

\* ---------------------------------------------------------- scrapeVariants
\* The call.
RunScrapeVariants ==
  /\ doc # <<>>
  /\ extracted = <<>>
  /\ extracted' = <<scrapeVariants(doc[1])>>
  /\ UNCHANGED <<doc, scrapeVars, exportVars, categoryVars>>

\* scrapeVariants on every page of the pool.
InitVariants ==
  /\ InitServer
  /\ categories = <<>>
  /\ config = <<>>
  /\ doc \in {<<page>> : page \in VariantPages}
  /\ extracted = <<>>

SpecVariants == InitVariants /\ [][RunScrapeVariants]_vars

\* ------------------------------------------------- scrapeProductAttributes
\* The call.
RunScrapeAttributes ==
  /\ doc # <<>>
  /\ extracted = <<>>
  /\ extracted' = <<scrapeProductAttributes(doc[1])>>
  /\ UNCHANGED <<doc, scrapeVars, exportVars, categoryVars>>

\* scrapeProductAttributes on every page of the pool.
InitAttributes ==
  /\ InitServer
  /\ categories = <<>>
  /\ config = <<>>
  /\ doc \in {<<page>> : page \in AttributePages}
  /\ extracted = <<>>

SpecAttributes == InitAttributes /\ [][RunScrapeAttributes]_vars

\* ------------------------------------------------------------ scrapePrice
\* The call.
RunScrapePrice ==
  /\ doc # <<>>
  /\ extracted = <<>>
  /\ extracted' = <<scrapePrice(doc[1])>>
  /\ UNCHANGED <<doc, scrapeVars, exportVars, categoryVars>>

\* scrapePrice on every page of the price pool.
InitPrice ==
  /\ InitServer
  /\ categories = <<>>
  /\ config = <<>>
  /\ doc \in {<<page>> : page \in PricePages}
  /\ extracted = <<>>

SpecPrice == InitPrice /\ [][RunScrapePrice]_vars

\* ----------------------------------------------------------------- claims
Answered(r) == req[r].pc = "done" /\ req[r].res # <<>>
AnsweredError(r) == Answered(r) /\ req[r].res[1].kind = "error"

\* The url the claims call valid: a string that parses, with hostname
\* exactly www.trendyol.com and a path containing "/p-" or "-p-".
ProductUrl(b) ==
  /\ b.isString /\ b.parses
  /\ b.hostname = "www.trendyol.com"
  /\ \/ Includes(b.pathname, <<"/", "p", "-">>)
     \/ Includes(b.pathname, <<"-", "p", "-">>)

\* C1: a scrape request whose url is not a www.trendyol.com product url
\* (or does not parse, or is missing) is answered with an error at once:
\* it never holds a cache lookup result, a page or a saved record, and no
\* such url is ever fetched or becomes a key of the cache.
C1_InvalidUrlRejectedBeforeFetch ==
  /\ \A r \in Reqs :
       (req[r].body # <<>> /\ ~ProductUrl(req[r].body[1])) =>
         /\ AnsweredError(r)
         /\ req[r].existing = <<>> /\ req[r].page = <<>>
         /\ req[r].product = <<>> /\ req[r].saved = <<>>
  /\ \A b \in ScrapeBodies :
       ~ProductUrl(b) => fetches[b.raw] = 0 /\ b.raw \notin DOMAIN products

C1_Witness ==
  \E r \in Reqs : AnsweredError(r) /\ req[r].body = <<UrlOtherHost>>
                  /\ products # EmptyMap

\* C2: once a url is a key of the cache it stays one; a request's lookup
\* reads the record stored under its url; a request whose lookup found a
\* record answers exactly that record (id included) in its next step,
\* issuing no fetch, taking no id and leaving the cache alone; and a fetch
\* is only ever issued by a request that has done its lookup and found
\* nothing.
C2_CacheHitAnswersStoredRecord ==
  [][/\ DOMAIN products \subseteq DOMAIN products'
     /\ \A r \in Reqs :
          /\ (req[r].pc = "idle" /\ req'[r].pc = "lookedUp") =>
               req'[r].existing =
                 (IF req'[r].body[1].raw \in DOMAIN products
                    THEN <<products[req'[r].body[1].raw]>> ELSE <<>>)
          /\ (req[r].pc = "lookedUp" /\ req[r].existing # <<>>
                /\ req'[r] # req[r]) =>
               /\ req'[r].pc = "done"
               /\ req'[r].res = <<JsonResponse(req[r].existing[1])>>
               /\ fetches' = fetches
               /\ currentId' = currentId
               /\ products' = products
     /\ (fetches' # fetches) =>
          \E r \in Reqs : /\ req[r].pc = "lookedUp" /\ req[r].existing = <<>>
                          /\ req'[r].pc = "fetching"
                          /\ fetches' = [fetches EXCEPT ![req[r].body[1].raw] = @ + 1]
    ]_vars

C2_Witness ==
  \E r \in Reqs :
    /\ Answered(r) /\ req[r].existing # <<>>
    /\ req[r].res = <<JsonResponse(req[r].existing[1])>>
    /\ req[r].existing[1].id = 1
    /\ fetches[req[r].body[1].raw] = 1
    /\ currentId = 2

\* C3: every record in the cache has a non-empty title, description and
\* price and at least one image.
C3_CachedRecordsComplete ==
  \A u \in DOMAIN products :
    /\ Truthy(products[u].title)
    /\ Truthy(products[u].description)
    /\ products[u].price # ""
    /\ products[u].images # <<>>

C3_Witness ==
  \E u \in DOMAIN products :
    /\ products[u].images = <<"m.jpg", "g.jpg">>
    /\ products[u].price = "NaN"
    /\ products[u].title = Num("5")

\* C4: a step that ends a request in an error leaves the cache and the id
\* counter as they are, and that request has saved nothing before; the
\* cache and the counter change only in the save step of a request that
\* has assembled a full record.
C4_ErrorLeavesStoreUntouched ==
  [][/\ \A r \in Reqs :
          (req[r].pc # "done" /\ req'[r].pc = "done"
             /\ req'[r].res[1].kind = "error") =>
            /\ products' = products /\ currentId' = currentId
            /\ req'[r].saved = <<>>
     /\ (products' # products \/ currentId' # currentId) =>
          \E r \in Reqs : /\ req[r].pc = "assembled" /\ req'[r].pc = "saved"
                          /\ req'[r].saved # <<>>
    ]_vars

C4_Witness ==
  \E r \in Reqs :
    /\ AnsweredError(r)
    /\ req[r].res[1].thrown.field = "images"
    /\ currentId = 2 /\ Cardinality(DOMAIN products) = 1

\* C5: the k-th saveProduct call returns id k, also when it overwrites the
\* entry of its url; after a save the lookup of its url gives the record
\* just saved (the given record with that id) and the entries of the other
\* urls are as before.
C5_SequentialIds ==
  /\ [](/\ currentId = Len(saveLog) + 1
        /\ \A k \in 1..Len(saveLog) : saveLog[k] = k)
  /\ [][\A r \in Reqs :
          (req[r].pc = "assembled" /\ req'[r].pc = "saved") =>
            LET u == req[r].product[1].url
            IN /\ req'[r].saved = <<WithId(req[r].product[1], Len(saveLog) + 1)>>
               /\ getProduct(products', u) = req'[r].saved
               /\ DOMAIN products' = DOMAIN products \cup {u}
               /\ \A k \in DOMAIN products \ {u} : products'[k] = products[k]
       ]_vars

C5_Witness ==
  /\ Len(saveLog) = 2
  /\ \E u \in DOMAIN products : DOMAIN products = {u} /\ products[u].id = 2
  /\ \E r \in Reqs : req[r].pc = "saved" /\ req[r].saved[1].id = 2

\* C6 (as claimed): a request with a bad or missing url is answered with
\* status 400 from the validation error kind.
C6_BadUrlAnswered400 ==
  \A r \in Reqs :
    (Answered(r) /\ ~ProductUrl(req[r].body[1])) =>
      /\ req[r].res[1].status = 400
      /\ req[r].res[1].thrown.name = "URLValidationError"

\* What C7 calls a page without a usable schema block.
SchemaBroken(page) ==
  page.ok /\ (page.script # "json" \/ ~page.type \/ ~Truthy(page.name))

\* C7: a fetched page without a first JSON-LD block, or whose block does
\* not parse or lacks @type or name, ends the request with status 422 from
\* a ProductDataError with field "schema", whatever else the page holds.
C7_SchemaErrorIs422 ==
  \A r \in Reqs :
    (req[r].page # <<>> /\ SchemaBroken(req[r].page[1])) =>
      /\ AnsweredError(r)
      /\ req[r].res[1].status = 422
      /\ req[r].res[1].thrown.name = "ProductDataError"
      /\ req[r].res[1].thrown.field = "schema"
      /\ req[r].res[1].message # "Beklenmeyen bir hata olustu"

C7_Witness ==
  \E r \in Reqs :
    /\ Answered(r) /\ req[r].page # <<>>
    /\ req[r].page[1].script = "none"
    /\ req[r].page[1].priceEl # <<>> /\ req[r].page[1].mainImage # <<>>
    /\ req[r].res[1].status = 422

\* C8 (as claimed): a page with a valid schema block and no price from any
\* strategy ends the request with the ScrapingError kind, not with the
\* unexpected-error answer.
C8_NoPriceIsScrapingError ==
  \A r \in Reqs :
    (Answered(r) /\ req[r].page # <<>> /\ req[r].page[1].ok
       /\ ~SchemaBroken(req[r].page[1])
       /\ ~Truthy(req[r].page[1].offersPrice)
       /\ req[r].page[1].priceEl = <<>> /\ req[r].page[1].altPriceEl = <<>>) =>
      /\ req[r].res[1].kind = "error"
      /\ req[r].res[1].thrown.name = "TrendyolScrapingError"
      /\ req[r].res[1].message # "Beklenmeyen bir hata olustu"

C10_ExactMatchBeforeSubstring ==
  config # <<>> =>
    LET normalized == [i \in 1..Len(categories) |-> normalizeCategory(categories[i])]
        keys == {categoryMapping[i].key : i \in 1..Len(categoryMapping)}
        exact == {i \in 1..Len(normalized) : normalized[i] \in keys}
    IN exact # {} =>
         config[1] = mappingOf(normalized[CHOOSE i \in exact :
                                            \A j \in exact : i <= j])

\* The rank table of the size sort, smallest first.
RankedSizes ==
  <<<<"X", "X", "S">>, <<"X", "S">>, <<"S">>, <<"M">>, <<"L">>, <<"X", "L">>,
    <<"2", "X", "L">>, <<"3", "X", "L">>, <<"4", "X", "L">>, <<"5", "X", "L">>,
    <<"6", "X", "L">>>>
RankOf(size) ==
  IF \E i \in 1..Len(RankedSizes) : RankedSizes[i] = size
    THEN CHOOSE i \in 1..Len(RankedSizes) : RankedSizes[i] = size
    ELSE 99
HoldsXSandSandM(token) ==
  /\ Includes(token, <<"X", "S">>)
  /\ Includes(token, <<"S">>)
  /\ Includes(token, <<"M">>)
\* The non-empty trimmed texts of the last size selector queried.
WinningTexts == trimmedTexts(doc[1].sizeNodes[Len(extracted[1].queried)])
FirstAt(list, x) == CHOOSE i \in 1..Len(list) : list[i] = x /\ \A j \in 1..(i - 1) : list[j] # x
SelectorSizes == extracted # <<>> /\ doc[1].hasVariant = <<>> /\ extracted[1].sizes # <<>>

\* C11: the size list taken from the winning selector holds exactly the
\* tokens that do not contain "XS", "S" and "M" together, each once, in the
\* order of the rank table, the unrecognized ones last (rank 99), and tokens
\* of equal rank in the order of their first occurrence.
C11_SizesFilteredUniqueRanked ==
  SelectorSizes =>
    LET found == WinningTexts
        sizes == extracted[1].sizes
    IN /\ {sizes[i] : i \in 1..Len(sizes)}
            = {found[i] : i \in {j \in 1..Len(found) : ~HoldsXSandSandM(found[j])}}
       /\ \A i, j \in 1..Len(sizes) : i # j => sizes[i] # sizes[j]
       /\ \A i, j \in 1..Len(sizes) :
            i < j => \/ RankOf(sizes[i]) < RankOf(sizes[j])
                     \/ /\ RankOf(sizes[i]) = RankOf(sizes[j])
                        /\ FirstAt(found, sizes[i]) < FirstAt(found, sizes[j])

\* The claim's example: S, M, L and a composite token give S, M, L.
C11_Witness ==
  /\ extracted # <<>>
  /\ doc[1].sizeNodes[1] = <<NodeS, NodeM, NodeL, NodeComposite>>
  /\ extracted[1].sizes = <<NodeS, NodeM, NodeL>>

\* Unrecognized sizes keep their encounter order behind a recognized one,
\* and a repeated token is taken once.
C11_WitnessUnrecognized ==
  /\ extracted # <<>>
  /\ doc[1].sizeNodes[1] = <<Node38, Node36, NodeM, Node38>>
  /\ extracted[1].sizes = <<NodeM, Node38, Node36>>

ExtraRows(n) == IF n > 1 THEN n - 1 ELSE 0

\* C12: the records of a product with s sizes and c colors are the main row,
\* then a row for each size from the second on, then a row for each color
\* from the second on; the row of the color with zero-based index i has that
\* color as Option2 Value, the string of i+1 as Image Position and images[i]
\* as Image Src, or images[0] where the product has no images[i].
C12_RowsPerVariant ==
  \A e \in Exps :
    exp[e].records # <<>> =>
      LET product == exp[e].body[1]
          records == exp[e].records
          sizes == product.variants.sizes
          colors == product.variants.colors
          images == product.images
      IN /\ Len(records) = 1 + ExtraRows(Len(sizes)) + ExtraRows(Len(colors))
         /\ records[1]["Title"] = product.title
         /\ records[1]["Image Position"] = "1"
         /\ \A i \in 1..ExtraRows(Len(sizes)) :
              /\ records[1 + i]["Option1 Value"] = sizes[i + 1]
              /\ "Image Position" \notin DOMAIN records[1 + i]
         /\ \A i \in 1..ExtraRows(Len(colors)) :
              LET row == records[1 + ExtraRows(Len(sizes)) + i]
              IN /\ row["Option2 Value"] = colors[i + 1]
                 /\ row["Image Position"] = ToString(i + 1)
                 /\ row["Image Src"] = IF i + 1 <= Len(images) THEN images[i + 1]
                                       ELSE images[1]

\* Two sizes, two colors and three images: three rows, and the color row has
\* Image Position "2" and the second image.
C12_Witness ==
  \E e \in Exps :
    /\ exp[e].records # <<>>
    /\ Len(exp[e].body[1].variants.sizes) = 2
    /\ Len(exp[e].body[1].variants.colors) = 2
    /\ Len(exp[e].body[1].images) = 3
    /\ Len(exp[e].records) = 3
    /\ exp[e].records[3]["Image Position"] = "2"
    /\ exp[e].records[3]["Image Src"] = exp[e].body[1].images[2]

\* Three colors and two images: the last color row falls back to the first
\* image.
C12_WitnessFallback ==
  \E e \in Exps :
    /\ exp[e].records # <<>>
    /\ Len(exp[e].body[1].variants.colors) = 3
    /\ Len(exp[e].body[1].images) = 2
    /\ exp[e].records[Len(exp[e].records)]["Image Position"] = "3"
    /\ exp[e].records[Len(exp[e].records)]["Image Src"] = exp[e].body[1].images[1]

\* The column list of the specification's section 6.
Section6Columns ==
  <<"Title", "Handle", "Body (HTML)", "Vendor", "Product Category", "Type",
    "Tags", "Published", "Status", "SKU", "Barcode", "Option1 Name",
    "Option1 Value", "Option2 Name", "Option2 Value", "Option3 Name",
    "Option3 Value", "Price", "Inventory policy", "Inventory quantity",
    "Requires shipping", "Weight", "Weight unit", "Image Src", "Image Position",
    "Image alt text", "Variant Image", "SEO Title", "SEO Description">>

WrittenHeader == file[1].header

\* C13: the header of the written file is the column list of section 6 in
\* its order, and every column a record of the request assigns (Barcode of
\* the main row among them) is a column of the header.
C13_HeaderIsSection6 ==
  \A e \in Exps :
    exp[e].pc \in {"written", "done"} /\ file # <<>> =>
      /\ WrittenHeader = Section6Columns
      /\ \A k \in 1..Len(exp[e].records) :
           DOMAIN exp[e].records[k] \subseteq {WrittenHeader[j] : j \in 1..Len(WrittenHeader)}

\* What the code does write: 28 columns, Barcode not among them, SKU behind
\* the option columns.
C13_WrittenHeader ==
  \A e \in Exps :
    exp[e].pc \in {"written", "done"} /\ file # <<>> =>
      /\ Len(WrittenHeader) = 28
      /\ \A j \in 1..Len(WrittenHeader) : WrittenHeader[j] # "Barcode"
      /\ "Barcode" \in DOMAIN exp[e].records[1]
      /\ WrittenHeader[16] = "SKU"
      /\ {WrittenHeader[j] : j \in 1..Len(WrittenHeader)}
           = {Section6Columns[j] : j \in 1..Len(Section6Columns)} \ {"Barcode"}

FirstWrite(writes, key) ==
  writes[CHOOSE i \in 1..Len(writes) :
           writes[i].key = key /\ \A j \in 1..(i - 1) : writes[j].key # key]

\* C14: the value a key has in the returned attributes is the first value
\* assigned to that key; no later assignment, of the same or of a later
\* strategy, has changed it.
C14_FirstWriteWins ==
  extracted # <<>> =>
    \A key \in DOMAIN extracted[1].attributes :
      extracted[1].attributes[key] = FirstWrite(extracted[1].writes, key).value

\* What the code keeps instead: the last value assigned to the key; the
\* generic selectors (strategy 3) assign no key that has a value, and the
\* special lookups (strategy 4) no key that had one before them.
C14_LastWriteStays ==
  extracted # <<>> =>
    LET writes == extracted[1].writes
    IN /\ \A key \in DOMAIN extracted[1].attributes :
            \E i \in 1..Len(writes) :
              /\ writes[i].key = key
              /\ writes[i].value = extracted[1].attributes[key]
              /\ \A j \in (i + 1)..Len(writes) : writes[j].key # key
       /\ \A i, j \in 1..Len(writes) :
            i < j /\ writes[i].key = writes[j].key =>
              /\ writes[j].strategy # 3
              /\ writes[j].strategy = 4 => writes[i].strategy = 4

\* The base prices of the price pages, in cents.
BaseCents == 0..MaxBaseCents \cup {10000}
BaseText(b) == IF b = 10000 THEN "100" ELSE CentsText(b)

\* C15: whichever strategy finds the base price, it is returned, and the
\* price returned with it is a decimal string with two fraction digits, the
\* amount of cents nearest to 1.15 times the base price (at most half a cent
\* away); for the base price 100 it is "115.00".
C15_PriceIsMarkupRoundedToCents ==
  extracted # <<>> /\ ~extracted[1].threw =>
    /\ \E b \in BaseCents :
         /\ extracted[1].basePrice = BaseText(b)
         /\ \E q \in {(115 * b) \div 100, (115 * b) \div 100 + 1} :
              /\ extracted[1].price = CentsText(q)
              /\ 100 * q - 115 * b \in -50..50
    /\ extracted[1].basePrice = "100" => extracted[1].price = "115.00"
    /\ Truthy(doc[1].offersPrice) => extracted[1].basePrice = doc[1].offersPrice.v

\* The structured-data base price 100 has given "115.00".
C15_Witness ==
  /\ extracted # <<>>
  /\ doc[1].offersPrice = Num("100")
  /\ extracted[1].basePrice = "100"
  /\ extracted[1].price = "115.00"

\* The alternative selector has given the base price 9.99 and the price
\* 11.49 (11.4885 rounded).
C15_WitnessAlternative ==
  /\ extracted # <<>>
  /\ ~Truthy(doc[1].offersPrice) /\ doc[1].priceEl = <<>>
  /\ extracted[1].basePrice = "9.99"
  /\ extracted[1].price = "11.49"

\* Two connections whose requests for one url have both saved.
BothSaved(r1, r2) ==
  /\ r1 # r2
  /\ req[r1].saved # <<>> /\ req[r2].saved # <<>>
  /\ req[r1].body[1].raw = req[r2].body[1].raw

\* C16: two requests for one url that have both saved had both missed the
\* cache and both fetched; their records, which are what they answer, have
\* different ids, and the cache holds for the url the record of the later
\* save. A cache entry changes only in the save step of a request for its
\* url.
C16_LastSaveWins ==
  /\ [](\A r1, r2 \in Reqs :
          BothSaved(r1, r2) =>
            LET u == req[r1].body[1].raw
                later == IF req[r1].saved[1].id > req[r2].saved[1].id THEN r1 ELSE r2
            IN /\ req[r1].existing = <<>> /\ req[r2].existing = <<>>
               /\ fetches[u] >= 2
               /\ req[r1].saved[1].id # req[r2].saved[1].id
               /\ getProduct(products, u) = req[later].saved
               /\ Answered(r1) => req[r1].res[1] = JsonResponse(req[r1].saved[1])
               /\ Answered(r2) => req[r2].res[1] = JsonResponse(req[r2].saved[1]))
  /\ [][\A u \in DOMAIN products' :
          (u \notin DOMAIN products \/ products'[u] # products[u]) =>
            \E r \in Reqs : /\ req[r].pc = "assembled" /\ req'[r].pc = "saved"
                            /\ req[r].body[1].raw = u
       ]_vars

\* Both requests for one url have answered, from different pages; the
\* cache holds the record of the second save and not that of the first.
C16_Witness ==
  \E r1, r2 \in Reqs :
    /\ BothSaved(r1, r2)
    /\ Answered(r1) /\ Answered(r2)
    /\ req[r1].page # req[r2].page
    /\ req[r1].saved[1].id = 1 /\ req[r2].saved[1].id = 2
    /\ products[req[r1].body[1].raw] = req[r2].saved[1]
    /\ products[req[r1].body[1].raw].price # req[r1].saved[1].price
    /\ DOMAIN products = {req[r1].body[1].raw}

\* No price strategy finds a price on the page.
NoPriceFound(page) ==
  ~Truthy(page.offersPrice) /\ page.priceEl = <<>> /\ page.altPriceEl = <<>>

SchemaPassed(r) ==
  Answered(r) /\ req[r].page # <<>> /\ req[r].page[1].ok /\ ~SchemaBroken(req[r].page[1])

AnsweredBasicInfo(r) ==
  /\ req[r].res[1].kind = "error"
  /\ req[r].res[1].status = 422
  /\ req[r].res[1].thrown.name = "ProductDataError"
  /\ req[r].res[1].thrown.field = "basicInfo"

\* C17: on a page that passes the schema check, a missing title, a missing
\* description or a missing price each end the request with status 422
\* from a ProductDataError with field "basicInfo".
C17_MissingBasicInfoIs422 ==
  \A r \in Reqs :
    (SchemaPassed(r)
       /\ (\/ ~Truthy(req[r].page[1].name)
           \/ ~Truthy(req[r].page[1].description)
           \/ NoPriceFound(req[r].page[1]))) =>
      AnsweredBasicInfo(r)

\* What the code does: with a price found and the brand resolved, a missing
\* description is answered as claimed; without a price the request is
\* answered 500 from the plain Error of scrapePrice, whatever else is
\* missing.
C17_OnlyDescriptionReachesBasicInfo ==
  \A r \in Reqs :
    SchemaPassed(r) =>
      /\ (/\ ~NoPriceFound(req[r].page[1])
          /\ ~Truthy(req[r].page[1].description)
          /\ (\/ req[r].page[1].name.t = "str"
              \/ Truthy(req[r].page[1].brandName)
              \/ Truthy(req[r].page[1].manufacturer))) => AnsweredBasicInfo(r)
      /\ NoPriceFound(req[r].page[1]) =>
           /\ req[r].res[1].kind = "error"
           /\ req[r].res[1].status = 500
           /\ req[r].res[1].thrown.name = "Error"

HasText(texts) == texts # <<>>
HasSingleSize(texts) == \E i \in 1..Len(texts) : ~HoldsXSandSandM(texts[i])
LeastOr0(hits) == IF hits = {} THEN 0 ELSE CHOOSE i \in hits : \A j \in hits : i <= j

\* The first size selector, if any, with a non-empty text node.
FirstWithText(page) ==
  LeastOr0({i \in 1..Len(sizeSelectors) : HasText(trimmedTexts(page.sizeNodes[i]))})

\* The first size selector, if any, with a text node the filter keeps.
FirstWithSingleSize(page) ==
  LeastOr0({i \in 1..Len(sizeSelectors) : HasSingleSize(trimmedTexts(page.sizeNodes[i]))})

\* C18 (as claimed): the first size selector with a non-empty text node is
\* the last one queried and decides the sizes, also when the filter removes
\* all its tokens.
C18_FirstSelectorWithTextDecides ==
  extracted # <<>> =>
    LET k == FirstWithText(doc[1])
    IN k > 0 =>
         /\ extracted[1].queried = SubSeq(sizeSelectors, 1, k)
         /\ doc[1].hasVariant = <<>> =>
              {extracted[1].sizes[i] : i \in 1..Len(extracted[1].sizes)}
                = {t \in {trimmedTexts(doc[1].sizeNodes[k])[i] :
                            i \in 1..Len(trimmedTexts(doc[1].sizeNodes[k]))} :
                     ~HoldsXSandSandM(t)}

\* C18 (amended): the first size selector with a text node that the
\* composite-token filter keeps is the last one queried and decides the
\* sizes; a selector whose tokens are all removed is passed over, and if no
\* selector keeps a token all four are queried and no size is taken from
\* them.
C18_FirstSelectorWithSizeDecides ==
  extracted # <<>> =>
    LET k == FirstWithSingleSize(doc[1])
    IN IF k > 0
         THEN /\ extracted[1].queried = SubSeq(sizeSelectors, 1, k)
              /\ doc[1].hasVariant = <<>> =>
                   {extracted[1].sizes[i] : i \in 1..Len(extracted[1].sizes)}
                     = {t \in {trimmedTexts(doc[1].sizeNodes[k])[i] :
                                 i \in 1..Len(trimmedTexts(doc[1].sizeNodes[k]))} :
                          ~HoldsXSandSandM(t)}
         ELSE /\ extracted[1].queried = sizeSelectors
              /\ doc[1].hasVariant = <<>> => extracted[1].sizes = <<>>

\* The first selector has a composite token alone, the second has sizes:
\* the second was queried and has given the sizes.
C18_Witness ==
  /\ extracted # <<>>
  /\ doc[1].sizeNodes[1] = <<NodeComposite>>
  /\ doc[1].sizeNodes[2] = <<NodeM, NodeS, NodeM>>
  /\ doc[1].sizeNodes[3] = <<Node38>>
  /\ doc[1].hasVariant = <<>>
  /\ Len(extracted[1].queried) = 2
  /\ extracted[1].sizes = <<NodeS, NodeM>>

\* C19: the file an export request downloads holds the lines of the
\* records built from that request's own product.
C19_DownloadIsOwnProduct ==
  \A e \in Exps :
    (exp[e].pc = "done" /\ exp[e].res[1].kind = "file") =>
      /\ exp[e].res[1].content # <<>>
      /\ exp[e].res[1].content[1].lines = csvLines(exportRecords(exp[e].body[1]))

SeoDescriptionOf(e) == exp[e].records[1]["SEO Description"]
QuotesIn(s) == Cardinality({i \in 1..Len(s) : s[i] = "\""})

\* C20: the SEO Description of the main row has at most 320 characters,
\* also when the attribute texts hold double quotes.
C20_SeoDescriptionAtMost320 ==
  \A e \in Exps : exp[e].records # <<>> => Len(SeoDescriptionOf(e)) <= SeoLimit

\* What the code keeps: 320 characters before the quotes are doubled, so
\* that the column is longer than 320 by half the quotes it holds.
C20_SeoDescriptionAtMost320BeforeDoubling ==
  \A e \in Exps :
    exp[e].records # <<>> =>
      /\ QuotesIn(SeoDescriptionOf(e)) % 2 = 0
      /\ Len(SeoDescriptionOf(e)) - QuotesIn(SeoDescriptionOf(e)) \div 2 <= SeoLimit

====
